---- MODULE Spec2Model ----
(***************************************************************************)
(* Model of the whisper_subtitles package: the SRT formatter               *)
(* (formatter.py), the configuration record (config.py), the               *)
(* SubtitleGenerator orchestrator (generator.py) and the path resolution   *)
(* of the command line (cli.py).                                           *)
(*                                                                         *)
(* Representation of Python values                                         *)
(*   str            a sequence of one-character strings                    *)
(*                   ("hi" is <<"h","i">>), except for short opaque tokens *)
(*                   (language codes, keys, paths) kept as TLA+ strings    *)
(*   Optional[x]    <<>> for None, <<x>> for a value x                     *)
(*   float          time values: [whole, frac] (see "IEEE doubles" below); *)
(*                   configuration numbers: the value in tenths            *)
(*   dict           a function from its keys                               *)
(***************************************************************************)
EXTENDS Integers, Sequences, FiniteSets, TLC

VARIABLES
    fcall,      \* the last call of a formatter function, with its result
    configs,    \* the WhisperConfig objects: name |-> attributes (instance dict)
    gen,        \* the SubtitleGenerator instance: model_size, config, model
    files,      \* persistent storage: path |-> content (None when absent)
    loadCalls,  \* invocations of the engine's load step (whisper.load_model)
    nUpdates,   \* update_config calls made
    last,       \* the last call on the instance: arguments, engine/storage
                \* steps taken in order, outcome
    cli         \* the last call of resolve_paths: the entries that exist,
                \* the arguments, the result

vars == <<fcall, configs, gen, files, loadCalls, nUpdates, last, cli>>

(***************************************************************************)
(* Characters and decimal rendering                                        *)
(***************************************************************************)
NL == "\n"
SP == " "
TAB == "\t"

\* The characters str.strip() removes (of the alphabet used here).
Whitespace == {SP, NL, TAB}

DigitChars == <<"0", "1", "2", "3", "4", "5", "6", "7", "8", "9">>

\* str(n) / format(n, "d") for n >= 0.
RECURSIVE Dec(_)
Dec(n) == IF n < 10 THEN <<DigitChars[n + 1]>>
          ELSE Dec(n \div 10) \o <<DigitChars[(n % 10) + 1]>>

\* format(n, "0{w}d"): zero-padded to at least w digits, never truncated.
RECURSIVE Zeros(_)
Zeros(k) == IF k <= 0 THEN <<>> ELSE <<"0">> \o Zeros(k - 1)

PadD(n, w) == LET d == Dec(n) IN Zeros(w - Len(d)) \o d

(***************************************************************************)
(* IEEE doubles                                                            *)
(* A non-negative double x is [whole |-> floor(x), frac |-> <<l1,l2,l3>>]  *)
(* with x - floor(x) = (l1 + l2*2^18 + l3*2^36) / 2^53 exactly             *)
(* (0 <= l1,l2 < 2^18, 0 <= l3 < 2^17).  Every double in [2^-1, 2^53) has  *)
(* this form.                                                              *)
(***************************************************************************)
LimbBase == 2^18
TopBase == 2^17

Dbl(w, l1, l2, l3) == [whole |-> w, frac |-> <<l1, l2, l3>>]

\* x // n and x % n for a double x >= 0 and a positive integer n: both are
\* exact in IEEE arithmetic (fmod is exact) for the magnitudes used here.
FloatFloorDiv(x, n) == x.whole \div n
FloatMod(x, n) == [whole |-> x.whole % n, frac |-> x.frac]

RECURSIVE BitLen(_)
BitLen(n) == IF n = 0 THEN 0 ELSE 1 + BitLen(n \div 2)

\* int(y * 1000) for a double 0 <= y < 1: the product is rounded to the
\* nearest double (53 significant bits, ties to even), then truncated.
IntTimes1000(y) ==
    LET f  == y.frac
        t1 == f[1] * 1000
        p1 == t1 % LimbBase
        t2 == f[2] * 1000 + (t1 \div LimbBase)
        p2 == t2 % LimbBase
        t3 == f[3] * 1000 + (t2 \div LimbBase)
        m  == t3 \div TopBase           \* integer part of the exact product
        d  == BitLen(m)                 \* low bits that do not fit in 53
        unit == 2^d
        low  == p1 % unit
        kept == p1 \div unit
        up == /\ d > 0
              /\ \/ 2 * low > unit
                 \/ (2 * low = unit /\ kept % 2 = 1)
        carry == /\ up
                 /\ kept = (LimbBase \div unit) - 1
                 /\ p2 = LimbBase - 1
                 /\ t3 % TopBase = TopBase - 1
    IN  IF carry THEN m + 1 ELSE m

\* floor(x * 1000) mod 1000 computed exactly: the millisecond digits of x
\* truncated, with no floating-point rounding.  (Reference value.)
ExactMillis(x) ==
    LET f  == x.frac
        t1 == f[1] * 1000
        t2 == f[2] * 1000 + (t1 \div LimbBase)
        t3 == f[3] * 1000 + (t2 \div LimbBase)
    IN  t3 \div TopBase

(***************************************************************************)
(* formatter.py                                                            *)
(***************************************************************************)
\* format_time(seconds)
format_time(seconds) ==
    LET hours     == FloatFloorDiv(seconds, 3600)
        minutes   == FloatFloorDiv(FloatMod(seconds, 3600), 60)
        secs      == FloatMod(seconds, 60).whole
        millisecs == IntTimes1000(FloatMod(seconds, 1))
    IN  PadD(hours, 2) \o <<":">> \o PadD(minutes, 2) \o <<":">>
          \o PadD(secs, 2) \o <<",">> \o PadD(millisecs, 3)

\* str.strip(): remove leading and trailing whitespace.
RECURSIVE LStrip(_)
LStrip(s) == IF s # <<>> /\ Head(s) \in Whitespace THEN LStrip(Tail(s)) ELSE s

RECURSIVE RStrip(_)
RStrip(s) == IF s # <<>> /\ s[Len(s)] \in Whitespace
             THEN RStrip(SubSeq(s, 1, Len(s) - 1)) ELSE s

\* (variant: only the leading whitespace removed)
StripLeadingOnly(s) == LStrip(s)

Strip(s) == RStrip(LStrip(s))

\* format_segment(index, segment)
format_segment(index, segment) ==
    LET start_time == format_time(segment.start)
        end_time   == format_time(segment.end)
        text       == Strip(segment.text)
    IN  Dec(index) \o <<NL>> \o start_time \o <<SP, "-", "-", ">", SP>>
          \o end_time \o <<NL>> \o text \o <<NL, NL>>

\* format_srt(segments): the loop over enumerate(segments, 1).
RECURSIVE format_srt_from(_, _, _)
format_srt_from(segments, i, srt_content) ==
    IF i > Len(segments) THEN srt_content
    ELSE format_srt_from(segments, i + 1,
                         srt_content \o format_segment(i, segments[i]))

\* (variant: enumerate(segments) counting from 0)
RECURSIVE format_srt_from0(_, _, _)
format_srt_from0(segments, i, srt_content) ==
    IF i > Len(segments) THEN srt_content
    ELSE format_srt_from0(segments, i + 1,
                          srt_content \o format_segment(i - 1, segments[i]))

format_srt_zero_based(segments) == format_srt_from0(segments, 1, <<>>)

format_srt(segments) == format_srt_from(segments, 1, <<>>)

\* content.split('\n'): the texts between the line breaks (always at least
\* one, the whole text when it has no line break).
RECURSIVE SplitLines(_)
SplitLines(s) ==
    IF \A i \in 1..Len(s) : s[i] # NL THEN <<s>>
    ELSE LET i == CHOOSE j \in 1..Len(s) : s[j] = NL /\ \A k \in 1..(j - 1) : s[k] # NL
         IN  <<SubSeq(s, 1, i - 1)>> \o SplitLines(SubSeq(s, i + 1, Len(s)))

\* '\n'.join(lines)
RECURSIVE JoinLines(_)
JoinLines(lines) ==
    IF lines = <<>> THEN <<>>
    ELSE IF Len(lines) = 1 THEN lines[1]
    ELSE lines[1] \o <<NL>> \o JoinLines(Tail(lines))

\* lines[:n], a negative n counting from the end.
SliceTo(lines, n) ==
    LET stop == IF n >= 0 THEN (IF n < Len(lines) THEN n ELSE Len(lines))
                ELSE (IF Len(lines) + n > 0 THEN Len(lines) + n ELSE 0)
    IN  SubSeq(lines, 1, stop)

\* f"\n\n... ({remaining} more lines)"
PreviewSuffix(remaining) ==
    <<NL, NL, ".", ".", ".", SP, "(">> \o Dec(remaining)
      \o <<SP, "m", "o", "r", "e", SP, "l", "i", "n", "e", "s", ")">>

\* preview_srt(content, max_lines)
preview_srt(content, max_lines) ==
    LET lines == SplitLines(content)
    IN  IF Len(lines) <= max_lines THEN content
        ELSE LET preview_lines == SliceTo(lines, max_lines)
                 remaining     == Len(lines) - max_lines
             IN  JoinLines(preview_lines) \o PreviewSuffix(remaining)


(***************************************************************************)
(* Inputs of the formatter functions                                       *)
(***************************************************************************)
\* Doubles nearest to the decimal literals named (Python's float parsing).
D_0         == Dbl(0, 0, 0, 0)                      \* 0.0
D_65_5      == Dbl(65, 0, 0, 65536)                 \* 65.5
D_3661_999  == Dbl(3661, 163840, 243269, 130940)    \* 3661.999
D_3661_9999 == Dbl(3661, 40960, 234042, 131058)     \* 3661.9999
D_0_999     == Dbl(0, 165675, 243269, 130940)       \* 0.999
D_1_2       == Dbl(1, 157286, 104857, 26214)        \* 1.2
D_4_35      == Dbl(4, 209712, 52428, 45875)         \* 4.35
D_360000_5  == Dbl(360000, 0, 0, 65536)             \* 360000.5 (100 hours)

NamedDoubles == {D_0, D_65_5, D_3661_999, D_3661_9999, D_0_999, D_1_2,
                 D_4_35, D_360000_5}

\* Doubles w + q/8: exactly representable, across the minute, hour and day
\* boundaries.
GridWholes == {0, 59, 60, 3599, 3600, 86399, 86400}
GridDoubles == {Dbl(w, 0, 0, q * (TopBase \div 8)) : w \in GridWholes, q \in 0..7}

TimeInputs == NamedDoubles \cup GridDoubles

\* Segments as the engine returns them (further fields, such as id, are
\* carried but not read by the formatter).
Seg(id, start, end, text) == [id |-> id, start |-> start, end |-> end, text |-> text]

SegPool == {
    Seg(0, D_0, D_1_2, <<SP, "h", "i", SP>>),
    Seg(7, D_1_2, D_4_35, <<NL, "a", SP, NL, NL, "b", TAB>>),
    Seg(0, D_65_5, D_3661_999, <<SP, SP>>),
    Seg(3, D_3661_9999, D_360000_5, <<"x">>) }

MaxSegs == 2

RECURSIVE SeqsUpTo(_, _)
SeqsUpTo(S, n) ==
    IF n = 0 THEN {<<>>}
    ELSE LET shorter == SeqsUpTo(S, n - 1)
         IN  shorter \cup {Append(q, x) : q \in {r \in shorter : Len(r) = n - 1}, x \in S}

\* A document long enough for two-digit indices.
LongSegments == [k \in 1..11 |-> Seg(k + 40, D_0, D_65_5, <<"x">>)]

SegmentLists == SeqsUpTo(SegPool, MaxSegs) \cup {LongSegments}

Indices == {1, 2, 10, 123}

(***************************************************************************)
(* Calls of the formatter functions                                        *)
(***************************************************************************)
NoSegment == Seg(0, D_0, D_0, <<>>)

FCall(fn, seconds, index, segment, segments, result) ==
    [fn |-> fn, seconds |-> seconds, index |-> index, segment |-> segment,
     segments |-> segments, result |-> result]

FIdle == FCall("none", D_0, 0, NoSegment, <<>>, <<>>)

CallFormatTime ==
    /\ \E s \in TimeInputs :
          fcall' = FCall("format_time", s, 0, NoSegment, <<>>, format_time(s))
    /\ UNCHANGED <<configs, gen, files, loadCalls, nUpdates, last, cli>>

CallFormatSegment ==
    /\ \E i \in Indices, seg \in SegPool :
          fcall' = FCall("format_segment", D_0, i, seg, <<>>, format_segment(i, seg))
    /\ UNCHANGED <<configs, gen, files, loadCalls, nUpdates, last, cli>>

CallFormatSrt ==
    /\ \E segs \in SegmentLists :
          fcall' = FCall("format_srt", D_0, 0, NoSegment, segs, format_srt(segs))
    /\ UNCHANGED <<configs, gen, files, loadCalls, nUpdates, last, cli>>

\* Texts to preview: empty, without a final line break, with one, with an
\* empty line inside, a formatted document, and one of a dozen lines.
PreviewContents ==
    {<<>>,
     <<"a">>,
     <<"a", NL, "b", NL, "c">>,
     <<"a", NL, "b", NL, "c", NL>>,
     <<"a", NL, NL, "b">>,
     format_srt(<<Seg(0, D_0, D_1_2, <<"h", "i">>), Seg(1, D_1_2, D_4_35, <<"y", "o">>)>>),
     JoinLines([k \in 1..12 |-> <<"x">>])}

PreviewMaxLines == {0, 1, 2, 3, 4, 8, 20}

PCall(content, max_lines, result) ==
    [fn |-> "preview_srt", content |-> content, max_lines |-> max_lines,
     result |-> result]

CallPreviewSrt ==
    /\ \E content \in PreviewContents, n \in PreviewMaxLines :
          fcall' = PCall(content, n, preview_srt(content, n))
    /\ UNCHANGED <<configs, gen, files, loadCalls, nUpdates, last, cli>>

(***************************************************************************)
(* config.py                                                               *)
(***************************************************************************)
None == <<>>
Some(x) == <<x>>

\* A dict with no keys.
EmptyDict == [k \in {} |-> ""]

\* The prompt __post_init__ substitutes (written without its diacritics).
SK_PROMPT == "Slovensky text o teologii a krestanstve."

\* The dataclass fields and their defaults.  Floats are held in tenths.
FieldDefaults ==
    [model_size |-> "turbo",
     language |-> "sk",
     task |-> "transcribe",
     word_timestamps |-> TRUE,
     temperature |-> 0,
     best_of |-> 3,
     beam_size |-> 5,
     patience |-> 10,
     length_penalty |-> 10,
     suppress_tokens |-> <<-1>>,
     condition_on_previous_text |-> FALSE,
     compression_ratio_threshold |-> 24,
     logprob_threshold |-> -10,
     no_speech_threshold |-> 6,
     initial_prompt |-> None]

FieldNames == DOMAIN FieldDefaults

\* Attributes every instance gets from the class: the methods.
ClassAttrs == {"to_whisper_params", "__post_init__"}

\* (variant: the fixed prompt substituted whatever the language)
post_init_any_language(cfg) ==
    IF cfg.initial_prompt = None
    THEN [cfg EXCEPT !.initial_prompt = Some(SK_PROMPT)]
    ELSE cfg

\* WhisperConfig.__post_init__
post_init(cfg) ==
    IF cfg.initial_prompt = None /\ cfg.language = "sk"
    THEN [cfg EXCEPT !.initial_prompt = Some(SK_PROMPT)]
    ELSE cfg

\* WhisperConfig(**kwargs): the generated __init__, then __post_init__.
WhisperConfig(kwargs) ==
    post_init([a \in FieldNames |->
                 IF a \in DOMAIN kwargs THEN kwargs[a] ELSE FieldDefaults[a]])

\* x or "" for an Optional[str] x.
OrEmpty(x) == IF x = None THEN "" ELSE x[1]

\* WhisperConfig.to_whisper_params
to_whisper_params(cfg) ==
    [language |-> cfg.language,
     task |-> cfg.task,
     word_timestamps |-> cfg.word_timestamps,
     temperature |-> cfg.temperature,
     best_of |-> cfg.best_of,
     beam_size |-> cfg.beam_size,
     patience |-> cfg.patience,
     length_penalty |-> cfg.length_penalty,
     suppress_tokens |-> cfg.suppress_tokens,
     initial_prompt |-> OrEmpty(cfg.initial_prompt),
     condition_on_previous_text |-> cfg.condition_on_previous_text,
     compression_ratio_threshold |-> cfg.compression_ratio_threshold,
     logprob_threshold |-> cfg.logprob_threshold,
     no_speech_threshold |-> cfg.no_speech_threshold]

\* The presets built when the module is imported, and one configuration
\* built by the caller: the keyword arguments of each construction.
CtorArgs ==
    [DEFAULT_CONFIG |-> EmptyDict,
     SLOVAK_CONFIG |-> [language |-> "sk", task |-> "transcribe",
                        initial_prompt |-> Some(SK_PROMPT)],
     TRANSLATE_TO_ENGLISH_CONFIG |-> [language |-> "sk", task |-> "translate",
                                      initial_prompt |-> Some("")],
     ENGLISH_CONFIG |-> [language |-> "en", task |-> "transcribe",
                         initial_prompt |-> Some("")],
     custom |-> [language |-> "de"]]

ConfigIds == DOMAIN CtorArgs

InitialConfigs == [id \in ConfigIds |-> WhisperConfig(CtorArgs[id])]

(***************************************************************************)
(* generator.py                                                            *)
(***************************************************************************)
\* SubtitleGenerator.__init__(model_size, config): config is None or the
\* name of a configuration object.
SubtitleGenerator(model_size, config) ==
    [model_size |-> model_size,
     config |-> IF config # None THEN config[1] ELSE "DEFAULT_CONFIG",
     model |-> None]

\* The handle whisper.load_model(size) returns.
Handle(size) == Some(size)

\* (variant: load_model without the "is None" test)
load_model_always(g, loadOk) ==
    [events |-> <<"load">>,
     size |-> Some(g.model_size),
     model |-> IF loadOk THEN Handle(g.model_size) ELSE g.model,
     outcome |-> IF loadOk THEN "ok" ELSE "EngineLoadError"]

\* (variant: the size read from the configuration the instance was given)
load_model_config_size(g, loadOk) ==
    IF g.model = None
    THEN [events |-> <<"load">>,
          size |-> Some(InitialConfigs[g.config].model_size),
          model |-> IF loadOk THEN Handle(InitialConfigs[g.config].model_size) ELSE None,
          outcome |-> IF loadOk THEN "ok" ELSE "EngineLoadError"]
    ELSE [events |-> <<>>, size |-> None, model |-> g.model, outcome |-> "ok"]

\* (variant: a load that raised is tried once more)
load_model_retry(g, loadOk) ==
    IF g.model = None
    THEN [events |-> IF loadOk THEN <<"load">> ELSE <<"load", "load">>,
          size |-> Some(g.model_size),
          model |-> IF loadOk THEN Handle(g.model_size) ELSE None,
          outcome |-> IF loadOk THEN "ok" ELSE "EngineLoadError"]
    ELSE [events |-> <<>>, size |-> None, model |-> g.model, outcome |-> "ok"]

\* SubtitleGenerator.load_model: the engine's load step either returns a
\* handle (loadOk) or raises.
load_model(g, loadOk) ==
    IF g.model = None
    THEN [events |-> <<"load">>,
          size |-> Some(g.model_size),
          model |-> IF loadOk THEN Handle(g.model_size) ELSE None,
          outcome |-> IF loadOk THEN "ok" ELSE "EngineLoadError"]
    ELSE [events |-> <<>>, size |-> None, model |-> g.model, outcome |-> "ok"]

\* Path(video_path).exists()
Exists(fs, path) == fs[path] # None

\* (variant: the configuration wins over the caller's overrides)
MergeConfigWins(export, kwargs) ==
    [k \in DOMAIN export \cup DOMAIN kwargs |->
        IF k \in DOMAIN export THEN export[k] ELSE kwargs[k]]

\* {**export, **kwargs}
Merge(export, kwargs) ==
    [k \in DOMAIN export \cup DOMAIN kwargs |->
        IF k \in DOMAIN kwargs THEN kwargs[k] ELSE export[k]]

\* Whether cfg.to_whisper_params is still the method: an instance attribute
\* of that name, once assigned, is found first and is not callable.
ExportCallable(cfg) == "to_whisper_params" \notin DOMAIN cfg

\* (variant: the overrides are stored in the held configuration before the
\* export)
transcribe_storing_overrides(g, cfg, fs, video_path, kwargs, loadOk, run) ==
    LET lm == load_model(g, loadOk)
        base == [events |-> lm.events, size |-> lm.size, model |-> lm.model,
                 params |-> None, segments |-> None, outcome |-> lm.outcome,
                 cfg |-> cfg]
    IN  IF lm.outcome # "ok" THEN base
        ELSE IF ~Exists(fs, video_path)
             THEN [base EXCEPT !.outcome = "FileNotFoundError"]
        ELSE IF ~ExportCallable(cfg)
             THEN [base EXCEPT !.outcome = "TypeError"]
        ELSE LET stored == [a \in DOMAIN cfg |->
                               IF a \in DOMAIN kwargs THEN kwargs[a] ELSE cfg[a]]
                 params == Merge(to_whisper_params(stored), kwargs)
             IN  IF run = None
                 THEN [base EXCEPT !.events = @ \o <<"run">>,
                                   !.params = Some(params),
                                   !.cfg = stored,
                                   !.outcome = "EngineRunError"]
                 ELSE [base EXCEPT !.events = @ \o <<"run">>,
                                   !.params = Some(params),
                                   !.cfg = stored,
                                   !.segments = Some(run[1].segments)]

\* SubtitleGenerator.transcribe(video_path, **kwargs).  loadOk: whether the
\* engine's load step succeeds; run: None when the engine's run step raises,
\* else the result it returns.  cfg in the result: the attributes of the
\* held configuration when the call ends (the method assigns none of them).
transcribe(g, cfg, fs, video_path, kwargs, loadOk, run) ==
    LET lm == load_model(g, loadOk)
        base == [events |-> lm.events, size |-> lm.size, model |-> lm.model,
                 params |-> None, segments |-> None, outcome |-> lm.outcome,
                 cfg |-> cfg]
    IN  IF lm.outcome # "ok" THEN base
        ELSE IF ~Exists(fs, video_path)
             THEN [base EXCEPT !.outcome = "FileNotFoundError"]
        ELSE IF ~ExportCallable(cfg)
             THEN [base EXCEPT !.outcome = "TypeError"]
        ELSE LET params == Merge(to_whisper_params(cfg), kwargs)
             IN  IF run = None
                 THEN [base EXCEPT !.events = @ \o <<"run">>,
                                   !.params = Some(params),
                                   !.outcome = "EngineRunError"]
                 ELSE [base EXCEPT !.events = @ \o <<"run">>,
                                   !.params = Some(params),
                                   !.segments = Some(run[1].segments)]

\* The text of a file, empty when the file is absent.
ContentOf(old) == IF old = None THEN <<>> ELSE old[1]

\* (variant: the file opened for appending)
save_srt_append(old, content, io) ==
    CASE io.kind = "ok" -> Some(ContentOf(old) \o content)
      [] io.kind = "open_error" -> old
      [] OTHER -> Some(ContentOf(old) \o SubSeq(content, 1, io.written))

\* save_srt(content, output_path): the content of the file afterwards, old
\* being its content before.  open(..., 'w') creates or empties the file
\* unless it raises; the write then stores everything, or raises with only
\* the first io.written characters stored.
save_srt(old, content, io) ==
    CASE io.kind = "ok" -> Some(content)
      [] io.kind = "open_error" -> old
      [] OTHER -> Some(SubSeq(content, 1, io.written))

\* bool(language) for an Optional[str]
Truthy(language) == language # None /\ language[1] # ""

\* (variant: the translate flag not applied)
generate_kwargs_no_task(language, translate, kwargs) ==
    IF Truthy(language)
    THEN Merge(kwargs, [language |-> language[1]])
    ELSE kwargs

\* generate, lines 109-115: the keyword arguments handed to transcribe.
generate_kwargs(language, translate, kwargs) ==
    LET kw1 == IF Truthy(language)
               THEN Merge(kwargs, [language |-> language[1]])
               ELSE kwargs
    IN  IF translate THEN Merge(kw1, [task |-> "translate"]) ELSE kw1

\* SubtitleGenerator.generate(video_path, output_path, language, translate,
\* **kwargs).  io: what happens when the file is written.
generate(g, cfg, fs, video_path, output_path, language, translate, kwargs, loadOk, run, io) ==
    LET tr == transcribe(g, cfg, fs, video_path,
                         generate_kwargs(language, translate, kwargs), loadOk, run)
        base == [events |-> tr.events, size |-> tr.size, model |-> tr.model,
                 params |-> tr.params, segments |-> tr.segments,
                 outcome |-> tr.outcome, result |-> None, fs |-> fs,
                 cfg |-> tr.cfg]
    IN  IF tr.outcome # "ok" THEN base
        ELSE LET srt_content == format_srt(tr.segments[1])
                 after == save_srt(fs[output_path], srt_content, io)
             IN  [base EXCEPT
                    !.events = @ \o (IF io.kind = "open_error"
                                     THEN <<"open">> ELSE <<"open", "write">>),
                    !.fs = [fs EXCEPT ![output_path] = after],
                    !.outcome = IF io.kind = "ok" THEN "ok" ELSE "OSError",
                    !.result = IF io.kind = "ok" THEN Some(srt_content) ELSE None]

\* SubtitleGenerator.generate_translated(video_path, output_path,
\* source_language, **kwargs)
generate_translated(g, cfg, fs, video_path, output_path, source_language, kwargs, loadOk, run, io) ==
    generate(g, cfg, fs, video_path, output_path, Some(source_language), TRUE,
             kwargs, loadOk, run, io)

\* hasattr(config, key)
HasAttr(cfg, key) == key \in DOMAIN cfg \/ key \in ClassAttrs

\* SubtitleGenerator.update_config(**kwargs): the configuration afterwards.
update_config(cfg, kwargs) ==
    LET set == {k \in DOMAIN kwargs : HasAttr(cfg, k)}
    IN  [a \in DOMAIN cfg \cup set |-> IF a \in set THEN kwargs[a] ELSE cfg[a]]

(***************************************************************************)
(* cli.py: resolve_paths                                                   *)
(* A Path is [abs, parts]: whether it is absolute, and its components      *)
(* (each a str).  The file system is the set of the entries that exist,    *)
(* each the components of its absolute path.                               *)
(***************************************************************************)
\* s.split('/')
RECURSIVE SplitSlash(_)
SplitSlash(s) ==
    IF \A i \in 1..Len(s) : s[i] # "/" THEN <<s>>
    ELSE LET i == CHOOSE j \in 1..Len(s) : s[j] = "/" /\ \A k \in 1..(j - 1) : s[k] # "/"
         IN  <<SubSeq(s, 1, i - 1)>> \o SplitSlash(SubSeq(s, i + 1, Len(s)))

IsComponent(c) == c # <<>> /\ c # <<".">>

\* Path(s): empty and '.' components are dropped, '..' is kept.
PathOf(s) ==
    [abs |-> s # <<>> /\ s[1] = "/", parts |-> SelectSeq(SplitSlash(s), IsComponent)]

\* p / q
Div(p, q) == IF q.abs THEN q ELSE [abs |-> p.abs, parts |-> p.parts \o q.parts]

\* Path('.')
DotPath == [abs |-> FALSE, parts |-> <<>>]

\* p.parent
Parent(p) ==
    IF p.parts = <<>> THEN p
    ELSE [abs |-> p.abs, parts |-> SubSeq(p.parts, 1, Len(p.parts) - 1)]

\* project_root: four levels above cli.py.
ProjectRoot == [abs |-> TRUE, parts |-> <<<<"r", "e", "p", "o">>>>]
PublicDir == PathOf(<<"p", "u", "b", "l", "i", "c">>)
AssetsDir == PathOf(<<"a", "s", "s", "e", "t", "s">>)

\* The current working directory of the process.
Cwd == [abs |-> TRUE, parts |-> <<<<"w", "o", "r", "k">>>>]

\* p.absolute()
Absolute(p) == IF p.abs THEN p ELSE Div(Cwd, p)

\* The components with every '..' applied ('..' at the root stays there).
RECURSIVE Collapse(_, _)
Collapse(done, rest) ==
    IF rest = <<>> THEN done
    ELSE IF Head(rest) = <<".", ".">>
         THEN Collapse(SubSeq(done, 1, Len(done) - 1), Tail(rest))
         ELSE Collapse(Append(done, Head(rest)), Tail(rest))

\* p.resolve() (no symbolic links)
Resolve(p) == [abs |-> TRUE, parts |-> Collapse(<<>>, Absolute(p).parts)]

\* p.exists()
PathExists(existing, p) == Resolve(p).parts \in existing

\* bool(s) for an Optional[str] held as characters
TruthyText(s) == s # None /\ s[1] # <<>>

SUBTITLES_SRT == <<"s", "u", "b", "t", "i", "t", "l", "e", "s", ".", "s", "r", "t">>
SUBTITLES_EN_SRT == <<"s", "u", "b", "t", "i", "t", "l", "e", "s", "_", "e", "n", ".", "s", "r", "t">>

\* Lines 178-193: the output path.
resolve_output(output_arg, translate) ==
    IF TruthyText(output_arg)
    THEN LET output_path == PathOf(output_arg[1])
         IN  IF ~output_path.abs
             THEN IF Parent(output_path) # DotPath
                  THEN Resolve(output_path)
                  ELSE Div(Div(ProjectRoot, PublicDir), PathOf(output_arg[1]))
             ELSE output_path
    ELSE IF translate
         THEN Div(Div(ProjectRoot, PublicDir), PathOf(SUBTITLES_EN_SRT))
         ELSE Div(Div(ProjectRoot, PublicDir), PathOf(SUBTITLES_SRT))

\* resolve_paths(video_arg, output_arg, translate), existing being the
\* entries of the file system.  exit: None when the function returns, the
\* code of sys.exit otherwise; printed: what it reported.
resolve_paths(existing, video_arg, output_arg, translate) ==
    LET video_path  == PathOf(video_arg)
        assets_path == Div(Div(Div(ProjectRoot, PublicDir), AssetsDir), PathOf(video_arg))
        returned(v) == [exit |-> None, printed |-> <<>>, video_path |-> Some(v),
                        output_path |-> Some(resolve_output(output_arg, translate))]
    IN  IF ~video_path.abs
        THEN IF PathExists(existing, assets_path) THEN returned(assets_path)
             ELSE IF ~PathExists(existing, video_path)
                  THEN [exit |-> Some(1),
                        printed |-> <<"Video file not found", video_arg>>,
                        video_path |-> None, output_path |-> None]
                  ELSE returned(video_path)
        ELSE returned(video_path)

(***************************************************************************)
(* Inputs of resolve_paths                                                 *)
(***************************************************************************)
A_MP4 == <<"a", ".", "m", "p", "4">>
CLIPS == <<"c", "l", "i", "p", "s">>
ABS == <<"a", "b", "s">>

\* 'a.mp4', 'clips/a.mp4', '/abs/a.mp4'
VideoArgs == {A_MP4, CLIPS \o <<"/">> \o A_MP4, <<"/">> \o ABS \o <<"/">> \o A_MP4}

\* None, '', 'o.srt', 'd/o.srt', '../o.srt', '/abs/o.srt'
OutputArgs ==
    {None, Some(<<>>), Some(<<"o", ".", "s", "r", "t">>),
     Some(<<"d", "/", "o", ".", "s", "r", "t">>),
     Some(<<".", ".", "/", "o", ".", "s", "r", "t">>),
     Some(<<"/", "a", "b", "s", "/", "o", ".", "s", "r", "t">>)}

\* The entries that may exist: each video argument under the assets
\* directory, under the working directory, and at its absolute path.
AssetsParts == ProjectRoot.parts \o PublicDir.parts \o AssetsDir.parts

Candidates ==
    {AssetsParts \o <<A_MP4>>, Cwd.parts \o <<A_MP4>>,
     AssetsParts \o <<CLIPS, A_MP4>>, Cwd.parts \o <<CLIPS, A_MP4>>,
     <<ABS, A_MP4>>}

CCall(fn, existing, video_arg, output_arg, translate, r) ==
    [fn |-> fn, existing |-> existing, video_arg |-> video_arg,
     output_arg |-> output_arg, translate |-> translate, exit |-> r.exit,
     printed |-> r.printed, video_path |-> r.video_path, output_path |-> r.output_path]

CIdle ==
    CCall("none", {}, <<>>, None, FALSE,
          [exit |-> None, printed |-> <<>>, video_path |-> None, output_path |-> None])

CallResolvePaths ==
    /\ \E existing \in SUBSET Candidates, video_arg \in VideoArgs,
          output_arg \in OutputArgs, translate \in BOOLEAN :
          cli' = CCall("resolve_paths", existing, video_arg, output_arg, translate,
                       resolve_paths(existing, video_arg, output_arg, translate))
    /\ UNCHANGED <<fcall, configs, gen, files, loadCalls, nUpdates, last>>

(***************************************************************************)
(* Inputs of the orchestrator's operations, and the outcomes of the        *)
(* engine and of storage                                                   *)
(***************************************************************************)
ModelSizes == {"tiny"}

\* The config argument of the constructor.
ConfigChoices == {None, Some("TRANSLATE_TO_ENGLISH_CONFIG"), Some("custom")}

VideoPaths == {"talk.mp4", "missing.mp4"}
OutputPath == "out.srt"
Paths == VideoPaths \cup {OutputPath}

InitialFiles == [p \in Paths |-> IF p = "talk.mp4" THEN Some(<<"m">>) ELSE None]

\* Overrides: none; an exported key with another value and a key the export
\* does not have; the language and a number.
TranscribeKwargs ==
    {EmptyDict,
     [task |-> "translate", foo |-> "bar"],
     [language |-> "en", temperature |-> 2]}

\* (generate takes language and translate as named parameters, so its
\* overrides cannot hold them.)
KwFoo == [task |-> "transcribe", foo |-> "bar"]

GenArgs(video_path, language, translate, kwargs) ==
    [video_path |-> video_path, language |-> language, translate |-> translate,
     kwargs |-> kwargs]

\* Arguments of generate: no language, an empty one, a language code; with
\* and without the translate flag; with and without overrides.
GenerateArgs ==
    {GenArgs("talk.mp4", None, FALSE, EmptyDict),
     GenArgs("talk.mp4", None, TRUE, EmptyDict),
     GenArgs("talk.mp4", Some("en"), TRUE, KwFoo),
     GenArgs("talk.mp4", Some(""), FALSE, KwFoo),
     GenArgs("missing.mp4", Some("en"), TRUE, EmptyDict)}

\* Arguments of generate_translated (language holds source_language).
GenerateTranslatedArgs ==
    {GenArgs("talk.mp4", Some("en"), TRUE, KwFoo),
     GenArgs("missing.mp4", Some("sk"), TRUE, EmptyDict)}

\* Arguments of update_config: fields, a key that is no attribute, and the
\* name of a method.
UpdateKwargs ==
    {[language |-> "en", model_size |-> "base", bogus |-> "x"],
     [task |-> "translate", initial_prompt |-> Some("Ahoj")],
     [initial_prompt |-> None],
     [to_whisper_params |-> "x"]}

\* What the engine's run step may return.
EngineResults ==
    {[segments |-> <<>>],
     [segments |-> <<Seg(0, D_0, D_1_2, <<SP, "h", "i", SP>>),
                     Seg(7, D_1_2, D_4_35, <<"a", NL, "b">>)>>]}

RunOutcomes == {None} \cup {Some(r) : r \in EngineResults}

\* What writing the formatted result may do: succeed, fail in open (the
\* file is left as it was), or fail in write/close after open has emptied
\* the file, with none or half of the text stored.
IoOutcomes(run) ==
    LET n == IF run = None THEN 0 ELSE Len(format_srt(run[1].segments))
    IN  {[kind |-> "ok", written |-> n], [kind |-> "open_error", written |-> 0]}
          \cup {[kind |-> "write_error", written |-> w] : w \in {0, n \div 2} \cap 0..(n - 1)}

\* The choices that make a difference: the load step is reached only while
\* no model is held, the run step only when the call gets that far, the
\* write only after a run that returned.
LoadChoices(g) == IF g.model = None THEN BOOLEAN ELSE {TRUE}

RunChoices(g, cfg, fs, video_path, kwargs, loadOk) ==
    IF transcribe(g, cfg, fs, video_path, kwargs, loadOk, None).outcome = "EngineRunError"
    THEN RunOutcomes
    ELSE {None}

IoChoices(run) ==
    IF run = None THEN {[kind |-> "ok", written |-> 0]} ELSE IoOutcomes(run)

MaxLoadCalls == 2
MaxUpdates == 1

CountLoads(events) == Cardinality({i \in DOMAIN events : events[i] = "load"})

LastCall(op, video_path, output_path, language, translate, kwargs, r) ==
    [op |-> op, video_path |-> video_path, output_path |-> output_path,
     language |-> language, translate |-> translate, kwargs |-> kwargs,
     events |-> r.events, size |-> r.size, params |-> r.params,
     segments |-> r.segments, outcome |-> r.outcome, result |-> r.result]

NoCall ==
    LastCall("none", "", "", None, FALSE, EmptyDict,
             [events |-> <<>>, size |-> None, params |-> None, segments |-> None,
              outcome |-> "ok", result |-> None])

(***************************************************************************)
(* The operations as steps of one instance                                 *)
(***************************************************************************)
Init ==
    /\ fcall = FIdle
    /\ configs = InitialConfigs
    /\ gen \in {SubtitleGenerator(ms, c) : ms \in ModelSizes, c \in ConfigChoices}
    /\ files = InitialFiles
    /\ loadCalls = 0
    /\ nUpdates = 0
    /\ last = NoCall
    /\ cli = CIdle

\* The effects of a call that went through transcribe or load_model.
Effects(r) ==
    /\ loadCalls + CountLoads(r.events) <= MaxLoadCalls
    /\ gen' = [gen EXCEPT !.model = r.model]
    /\ loadCalls' = loadCalls + CountLoads(r.events)

LoadModelCall ==
    \E loadOk \in LoadChoices(gen) :
        LET lm == load_model(gen, loadOk)
            r == [events |-> lm.events, size |-> lm.size, model |-> lm.model,
                  params |-> None, segments |-> None, outcome |-> lm.outcome,
                  result |-> None]
        IN  /\ Effects(r)
            /\ last' = LastCall("load_model", "", "", None, FALSE, EmptyDict, r)
            /\ UNCHANGED <<cli, fcall, configs, files, nUpdates>>

TranscribeCall ==
    \E video_path \in VideoPaths, kwargs \in TranscribeKwargs,
       loadOk \in LoadChoices(gen) :
      \E run \in RunChoices(gen, configs[gen.config], files, video_path, kwargs, loadOk) :
        LET tr == transcribe(gen, configs[gen.config], files, video_path, kwargs,
                             loadOk, run)
            r == [events |-> tr.events, size |-> tr.size, model |-> tr.model,
                  params |-> tr.params, segments |-> tr.segments,
                  outcome |-> tr.outcome, result |-> None]
        IN  /\ Effects(r)
            /\ configs' = [configs EXCEPT ![gen.config] = tr.cfg]
            /\ last' = LastCall("transcribe", video_path, "", None, FALSE, kwargs, r)
            /\ UNCHANGED <<cli, fcall, files, nUpdates>>

GenerateCall ==
    \E a \in GenerateArgs, loadOk \in LoadChoices(gen) :
      \E run \in RunChoices(gen, configs[gen.config], files, a.video_path,
                            generate_kwargs(a.language, a.translate, a.kwargs), loadOk) :
        \E io \in IoChoices(run) :
            LET r == generate(gen, configs[gen.config], files, a.video_path, OutputPath,
                              a.language, a.translate, a.kwargs, loadOk, run, io)
            IN  /\ Effects(r)
                /\ files' = r.fs
                /\ configs' = [configs EXCEPT ![gen.config] = r.cfg]
                /\ last' = LastCall("generate", a.video_path, OutputPath, a.language,
                                    a.translate, a.kwargs, r)
                /\ UNCHANGED <<cli, fcall, nUpdates>>

GenerateTranslatedCall ==
    \E a \in GenerateTranslatedArgs, loadOk \in LoadChoices(gen) :
      \E run \in RunChoices(gen, configs[gen.config], files, a.video_path,
                            generate_kwargs(a.language, TRUE, a.kwargs), loadOk) :
        \E io \in IoChoices(run) :
            LET r == generate_translated(gen, configs[gen.config], files, a.video_path,
                                         OutputPath, a.language[1], a.kwargs,
                                         loadOk, run, io)
            IN  /\ Effects(r)
                /\ files' = r.fs
                /\ configs' = [configs EXCEPT ![gen.config] = r.cfg]
                /\ last' = LastCall("generate_translated", a.video_path, OutputPath,
                                    a.language, TRUE, a.kwargs, r)
                /\ UNCHANGED <<cli, fcall, nUpdates>>

UpdateConfigCall ==
    \E kwargs \in UpdateKwargs :
        /\ nUpdates < MaxUpdates
        /\ nUpdates' = nUpdates + 1
        /\ configs' = [configs EXCEPT ![gen.config] = update_config(@, kwargs)]
        /\ last' = LastCall("update_config", "", "", None, FALSE, kwargs,
                            [events |-> <<>>, size |-> None, params |-> None,
                             segments |-> None, outcome |-> "ok", result |-> None])
        /\ UNCHANGED <<cli, fcall, gen, files, loadCalls>>

Next ==
    \/ LoadModelCall
    \/ TranscribeCall
    \/ GenerateCall
    \/ GenerateTranslatedCall
    \/ UpdateConfigCall

Spec == Init /\ [][Next]_vars

(***************************************************************************)
(* The formatter functions on their own                                    *)
(***************************************************************************)
InitFmt ==
    /\ fcall = FIdle
    /\ configs = InitialConfigs
    /\ gen = SubtitleGenerator("turbo", None)
    /\ files = InitialFiles
    /\ loadCalls = 0
    /\ nUpdates = 0
    /\ last = NoCall
    /\ cli = CIdle

NextFmt ==
    \/ CallFormatTime
    \/ CallFormatSegment
    \/ CallFormatSrt
    \/ CallPreviewSrt

SpecFmt == InitFmt /\ [][NextFmt]_vars

(***************************************************************************)
(* The path resolution on its own                                          *)
(***************************************************************************)
InitCli == InitFmt

NextCli == CallResolvePaths

SpecCli == InitCli /\ [][NextCli]_vars

(***************************************************************************)
(* Reading a formatted text back (used to state the properties)            *)
(***************************************************************************)
IsDigits(s) == s # <<>> /\ \A i \in 1..Len(s) : \E d \in 1..10 : DigitChars[d] = s[i]

DigitVal(c) == (CHOOSE d \in 1..10 : DigitChars[d] = c) - 1

RECURSIVE ParseNat(_)
ParseNat(s) == IF s = <<>> THEN 0
               ELSE 10 * ParseNat(SubSeq(s, 1, Len(s) - 1)) + DigitVal(s[Len(s)])

\* The fields of a text of the form H..H:MM:SS,mmm.
TimeShape(t) ==
    LET n == Len(t)
    IN  /\ n >= 12
        /\ t[n - 3] = "," /\ t[n - 6] = ":" /\ t[n - 9] = ":"
        /\ IsDigits(SubSeq(t, 1, n - 10))
        /\ IsDigits(SubSeq(t, n - 8, n - 7))
        /\ IsDigits(SubSeq(t, n - 5, n - 4))
        /\ IsDigits(SubSeq(t, n - 2, n))

TimeHours(t)   == ParseNat(SubSeq(t, 1, Len(t) - 10))
TimeMinutes(t) == ParseNat(SubSeq(t, Len(t) - 8, Len(t) - 7))
TimeSeconds(t) == ParseNat(SubSeq(t, Len(t) - 5, Len(t) - 4))
TimeMillis(t)  == ParseNat(SubSeq(t, Len(t) - 2, Len(t)))

\* The first line of a text: the characters before its first line break.
RECURSIVE FirstLine(_)
FirstLine(s) == IF s = <<>> \/ Head(s) = NL THEN <<>>
                ELSE <<Head(s)>> \o FirstLine(Tail(s))

\* Length of block k of a document: index line, time line, stripped text,
\* blank line.
BlockLen(segments, k) == Len(format_segment(k, segments[k]))

RECURSIVE BlockOffset(_, _)
BlockOffset(segments, k) ==
    IF k <= 1 THEN 0
    ELSE BlockOffset(segments, k - 1) + BlockLen(segments, k - 1)

BlockOf(doc, segments, k) ==
    SubSeq(doc, BlockOffset(segments, k) + 1, BlockOffset(segments, k + 1))

(***************************************************************************)
(* Properties of the formatter                                             *)
(***************************************************************************)
\* C3: format_srt returns exactly N blocks for N segments; block k carries
\* the index line k and is built from the k-th input segment, in input
\* order (the segments' id fields play no part); the empty sequence gives
\* the empty text.
C3_FormatSrtBlocks ==
    fcall.fn = "format_srt" =>
        LET segs == fcall.segments
            out  == fcall.result
            N    == Len(segs)
        IN  /\ (N = 0 => out = <<>>)
            /\ Len(out) = BlockOffset(segs, N + 1)
            /\ \A k \in 1..N :
                  /\ BlockOf(out, segs, k) = format_segment(k, segs[k])
                  /\ IsDigits(FirstLine(BlockOf(out, segs, k)))
                  /\ ParseNat(FirstLine(BlockOf(out, segs, k))) = k

\* C3 witness: a document of several segments whose ids differ from their
\* positions, and the long document with two-digit indices, were formatted.
C3_Witness ==
    /\ fcall.fn = "format_srt"
    /\ Len(fcall.segments) >= 2
    /\ \E k \in 1..Len(fcall.segments) : fcall.segments[k].id # k
    /\ fcall.result # <<>>

\* C4 (as claimed): format_time(s) has the form HH:MM:SS,mmm with MM, SS in
\* 0..59, hours not wrapping, and its fields re-derive s truncated to the
\* millisecond; format_time(0) = 00:00:00,000, format_time(65.5) =
\* 00:01:05,500, format_time(3661.999) = 01:01:01,999 and
\* format_time(3661.9999) = 01:01:01,999.
C4_FormatTimeAsClaimed ==
    fcall.fn = "format_time" =>
        LET s == fcall.seconds
            t == fcall.result
        IN  /\ TimeShape(t)
            /\ TimeMinutes(t) \in 0..59
            /\ TimeSeconds(t) \in 0..59
            /\ TimeMillis(t) \in 0..999
            /\ TimeHours(t) * 3600 + TimeMinutes(t) * 60 + TimeSeconds(t) = s.whole
            /\ TimeMillis(t) = ExactMillis(s)
            /\ (s = D_0 => t = <<"0","0",":","0","0",":","0","0",",","0","0","0">>)
            /\ (s = D_65_5 => t = <<"0","0",":","0","1",":","0","5",",","5","0","0">>)
            /\ (s = D_3661_999 => t = <<"0","1",":","0","1",":","0","1",",","9","9","9">>)
            /\ (s = D_3661_9999 => t = <<"0","1",":","0","1",":","0","1",",","9","9","9">>)

\* The text T of a block is obtained from the segment text by removing
\* whitespace at its two ends only: text = (whitespace) T (whitespace), and
\* T neither starts nor ends with whitespace.
IsTrimOf(T, text) ==
    /\ (T # <<>> => T[1] \notin Whitespace /\ T[Len(T)] \notin Whitespace)
    /\ \E a \in 0..Len(text) :
          /\ a + Len(T) <= Len(text)
          /\ SubSeq(text, a + 1, a + Len(T)) = T
          /\ \A i \in 1..a : text[i] \in Whitespace
          /\ \A i \in (a + Len(T) + 1)..Len(text) : text[i] \in Whitespace

\* A block: the index line, the line "<start> --> <end>", the trimmed text,
\* one blank line.
IsBlock(b, index, segment) ==
    LET head == Dec(index) \o <<NL>> \o format_time(segment.start)
                  \o <<SP, "-", "-", ">", SP>> \o format_time(segment.end) \o <<NL>>
        n == Len(b)
        T == SubSeq(b, Len(head) + 1, n - 2)
    IN  /\ n >= Len(head) + 2
        /\ SubSeq(b, 1, Len(head)) = head
        /\ b[n - 1] = NL /\ b[n] = NL
        /\ IsTrimOf(T, segment.text)

\* C5: format_segment produces the index line, the time line, the text with
\* only leading and trailing whitespace removed (its inner whitespace and
\* line breaks kept), then exactly one blank line; in a document every block
\* has this form and the next block's index line follows the blank line
\* directly.
C5_SegmentBlock ==
    /\ fcall.fn = "format_segment" =>
          IsBlock(fcall.result, fcall.index, fcall.segment)
    /\ fcall.fn = "format_srt" =>
          \A k \in 1..Len(fcall.segments) :
              /\ IsBlock(BlockOf(fcall.result, fcall.segments, k), k, fcall.segments[k])
              /\ k < Len(fcall.segments) =>
                    FirstLine(BlockOf(fcall.result, fcall.segments, k + 1)) = Dec(k + 1)

\* C5 witness: a segment whose text has whitespace at both ends and inside
\* (a blank line included) was formatted.
C5_Witness ==
    /\ fcall.fn = "format_segment"
    /\ LET text == fcall.segment.text
       IN  /\ Len(text) >= 3
           /\ text[1] \in Whitespace /\ text[Len(text)] \in Whitespace
           /\ \E i \in 2..(Len(Strip(text)) - 1) : Strip(text)[i] = NL /\ Strip(text)[i + 1] = NL
    /\ Len(fcall.result) > 2

\* C13 (as claimed): with the text's lines obtained by splitting on line
\* breaks, preview_srt returns the text unchanged when it has at most N
\* lines; otherwise the first N lines joined by line breaks, followed by two
\* blank lines and one summary line, N + 2 + 1 lines in all, the summary
\* stating total lines - N.
C13_PreviewAsClaimed ==
    fcall.fn = "preview_srt" =>
        LET lines == SplitLines(fcall.content)
            N     == fcall.max_lines
            out   == SplitLines(fcall.result)
        IN  IF Len(lines) <= N THEN fcall.result = fcall.content
            ELSE /\ Len(out) = N + 2 + 1
                 /\ SubSeq(out, 1, N) = SubSeq(lines, 1, N)
                 /\ out[N + 1] = <<>>
                 /\ out[N + 2] = <<>>
                 /\ out[N + 3] = <<".", ".", ".", SP, "(">> \o Dec(Len(lines) - N)
                                    \o <<SP, "m", "o", "r", "e", SP, "l", "i", "n", "e", "s", ")">>

(***************************************************************************)
(* Properties of the path resolution                                       *)
(***************************************************************************)
\* C15 (as claimed): for every state of the file system, a bare media
\* filename resolves to the entry under the assets directory when that
\* exists, else to the path relative to the working directory; a relative
\* media path with directory components resolves relative to the working
\* directory whether or not the assets directory has an entry of that
\* relative path; when neither candidate exists, the missing file is
\* reported and the exit code is 1.
C15_ResolveAsClaimed ==
    (cli.fn = "resolve_paths" /\ ~PathOf(cli.video_arg).abs) =>
        LET v        == PathOf(cli.video_arg)
            inAssets == [abs |-> TRUE, parts |-> AssetsParts \o v.parts]
            inCwd    == [abs |-> TRUE, parts |-> Cwd.parts \o v.parts]
            found(p) == /\ cli.exit = None
                        /\ cli.video_path # None
                        /\ Absolute(cli.video_path[1]) = p
            bare     == Len(v.parts) = 1
        IN  /\ (bare /\ inAssets.parts \in cli.existing) => found(inAssets)
            /\ (bare /\ inAssets.parts \notin cli.existing
                      /\ inCwd.parts \in cli.existing) => found(inCwd)
            /\ (~bare /\ inCwd.parts \in cli.existing) => found(inCwd)
            /\ (inAssets.parts \notin cli.existing /\ inCwd.parts \notin cli.existing) =>
                  /\ cli.exit = Some(1)
                  /\ cli.printed = <<"Video file not found", cli.video_arg>>

(***************************************************************************)
(* Properties of the orchestrator and of the configuration                 *)
(***************************************************************************)
Loaded == gen.model # None

ThroughLoad == {"load_model", "transcribe", "generate", "generate_translated"}
GenerateOps == {"generate", "generate_translated"}

\* The keys of the export: every field but model_size.
ExportKeys == FieldNames \ {"model_size"}

\* The value the export gives key k for the attributes cfg.
ExportedValue(cfg, k) ==
    IF k = "initial_prompt" THEN OrEmpty(cfg.initial_prompt) ELSE cfg[k]

\* C1 (as claimed): transcribe on a path that does not exist fails with
\* FileNotFoundError before any engine step: neither the load step nor the
\* run step is invoked in that call.
C1_NotFoundBeforeEngine ==
    (last.op = "transcribe" /\ ~Exists(files, last.video_path)) =>
        /\ last.outcome = "FileNotFoundError"
        /\ last.events = <<>>

\* C2 (as claimed): the instance is Loaded after the first transcribe or
\* load_model, and the engine's load step is invoked exactly once over the
\* whole sequence of calls.
C2_LoadedOnceAsClaimed ==
    /\ loadCalls <= 1
    /\ (last.op \in ThroughLoad => Loaded /\ loadCalls = 1)

\* C2 (amended): the instance starts Unloaded; the load step is invoked only
\* while Unloaded, once per call that goes through load_model, with the
\* constructor's model size; the instance becomes Loaded exactly when that
\* step succeeds and stays Unloaded when it raises; once Loaded it keeps
\* its handle and the load step is never invoked again, so load_model while
\* Loaded is a no-op.
C2_LoadStep ==
    /\ (last'.op \in ThroughLoad /\ ~Loaded) =>
          /\ loadCalls' = loadCalls + 1
          /\ last'.events[1] = "load"
          /\ CountLoads(last'.events) = 1
          /\ (gen'.model # None) = (last'.outcome # "EngineLoadError")
    /\ Loaded =>
          /\ gen'.model = gen.model
          /\ loadCalls' = loadCalls
          /\ CountLoads(last'.events) = 0
          /\ (last'.op = "load_model" => last'.events = <<>> /\ last'.outcome = "ok")
    /\ last'.op \notin ThroughLoad => gen'.model = gen.model /\ loadCalls' = loadCalls
    /\ (gen'.model # None) => gen'.model = Handle(gen.model_size) /\ loadCalls' >= 1

C2_Lifecycle == (~Loaded /\ loadCalls = 0) /\ [][C2_LoadStep]_vars

\* C2 witness: after a load that raised and one that succeeded, load_model
\* was called on the Loaded instance.
C2_Witness ==
    /\ Loaded
    /\ loadCalls = 2
    /\ last.op = "load_model"
    /\ last.events = <<>>

\* C6: the mapping transcribe hands to the engine is the export overlaid
\* with the overrides: the override value for every override key, the
\* exported value for every other exported key, and no other key.
C6_MergedParams ==
    (last.op = "transcribe" /\ last.params # None) =>
        LET params == last.params[1]
            kwargs == last.kwargs
            cfg    == configs[gen.config]
        IN  /\ DOMAIN params = ExportKeys \cup DOMAIN kwargs
            /\ \A k \in DOMAIN kwargs : params[k] = kwargs[k]
            /\ \A k \in ExportKeys \ DOMAIN kwargs : params[k] = ExportedValue(cfg, k)

\* C6 witness: the engine was run with overrides that change an exported key
\* and add a key the export does not have.
C6_Witness ==
    /\ last.op = "transcribe"
    /\ last.params # None
    /\ \E k \in DOMAIN last.kwargs \cap ExportKeys :
          last.kwargs[k] # ExportedValue(configs[gen.config], k)
    /\ \E k \in DOMAIN last.kwargs : k \notin ExportKeys

\* The mapping generate must hand to the engine for a language code and a
\* translate flag: the export, overlaid with the overrides, then with the
\* language and, when translate is set, the task.
ForcedParams(cfg, kwargs, lang, translate, k) ==
    IF k = "language" /\ lang # None THEN lang[1]
    ELSE IF k = "task" /\ translate THEN "translate"
    ELSE IF k \in DOMAIN kwargs THEN kwargs[k]
    ELSE ExportedValue(cfg, k)

\* C7 (as claimed): generate passes 'language' equal to the given language
\* whenever one is given and 'task' equal to 'translate' whenever translate
\* is true, whatever the configuration and the overrides hold;
\* generate_translated passes what generate(language = source_language,
\* translate = true) passes.
C7_GenerateForcesAsClaimed ==
    (last.op \in GenerateOps /\ last.params # None) =>
        LET params == last.params[1]
        IN  /\ DOMAIN params = ExportKeys \cup DOMAIN last.kwargs
                                 \cup (IF last.language # None THEN {"language"} ELSE {})
                                 \cup (IF last.translate THEN {"task"} ELSE {})
            /\ \A k \in DOMAIN params :
                  params[k] = ForcedParams(configs[gen.config], last.kwargs,
                                           last.language, last.translate, k)

\* C7 (amended): as claimed for a non-empty language; an empty language
\* string is treated as no language, and the engine then receives the
\* configured language.
C7_GenerateForces ==
    (last.op \in GenerateOps /\ last.params # None) =>
        LET params == last.params[1]
            lang   == IF Truthy(last.language) THEN last.language ELSE None
        IN  /\ DOMAIN params = ExportKeys \cup DOMAIN last.kwargs
            /\ \A k \in DOMAIN params :
                  params[k] = ForcedParams(configs[gen.config], last.kwargs,
                                           lang, last.translate, k)
            /\ (last.op = "generate_translated" => last.translate /\ last.language # None)

\* C7 witness: generate ran the engine with a language other than the
\* configured one, translate set, and a 'task' override that is not
\* 'translate'.
C7_Witness ==
    /\ last.op = "generate"
    /\ last.params # None
    /\ Truthy(last.language)
    /\ last.language[1] # configs[gen.config].language
    /\ last.translate
    /\ "task" \in DOMAIN last.kwargs
    /\ last.kwargs.task # "translate"

\* C8: after a generate that returns, the file at the output path holds
\* exactly the returned text, which is the engine's segments formatted in
\* the engine's order; nothing of the file's earlier content remains.
C8_FileIsReturnedText ==
    (last.op \in GenerateOps /\ last.outcome = "ok") =>
        /\ last.result # None /\ last.segments # None
        /\ files[last.output_path] = last.result
        /\ Len(last.result[1]) = BlockOffset(last.segments[1], Len(last.segments[1]) + 1)
        /\ \A k \in 1..Len(last.segments[1]) :
              BlockOf(last.result[1], last.segments[1], k)
                = format_segment(k, last.segments[1][k])

\* C8 witness: generate returned the text of two segments.
C8_Witness ==
    /\ last.op = "generate"
    /\ last.outcome = "ok"
    /\ Len(last.segments[1]) = 2
    /\ files[last.output_path] = last.result

\* C9 (as claimed): a generate that ends in an error leaves the output file
\* either holding the complete formatted text or exactly as it was before
\* the call.
C9_NoPartialStep ==
    (last'.op \in GenerateOps /\ last'.outcome # "ok") =>
        \/ files'[last'.output_path] = files[last'.output_path]
        \/ /\ last'.segments # None
           /\ files'[last'.output_path] = Some(format_srt(last'.segments[1]))

C9_NoPartialArtifact == [][C9_NoPartialStep]_vars

\* The initial_prompt the claim expects in the export of a configuration
\* constructed with the keyword arguments args.
PromptAtConstruction(args) ==
    LET supplied == IF "initial_prompt" \in DOMAIN args THEN args.initial_prompt ELSE None
        language == IF "language" \in DOMAIN args THEN args.language ELSE "sk"
    IN  IF supplied # None THEN supplied[1]
        ELSE IF language = "sk" THEN SK_PROMPT
        ELSE ""

ExportedPrompt(id) == to_whisper_params(configs[id]).initial_prompt

\* C10 (as claimed): in every state, after any update_config calls, the
\* export's initial_prompt is the prompt supplied at construction, the fixed
\* prompt when none was supplied and the language was 'sk', and the empty
\* string otherwise.
C10_PromptAsClaimed ==
    \A id \in ConfigIds : ExportedPrompt(id) = PromptAtConstruction(CtorArgs[id])

\* C10 (amended): the export's initial_prompt is always a string, the held
\* field or the empty string when the field is None: the value the claim
\* names as long as no update_config call was made, unchanged by every call
\* but an update_config that assigns initial_prompt on that configuration,
\* and then the prompt assigned, or the empty string when None was assigned.
C10_PromptStep ==
    \A id \in ConfigIds :
        /\ nUpdates = 0 => ExportedPrompt(id) = PromptAtConstruction(CtorArgs[id])
        /\ nUpdates' = 0 => ExportedPrompt(id)' = PromptAtConstruction(CtorArgs[id])
        /\ ExportedPrompt(id)' = (IF configs'[id].initial_prompt = None THEN ""
                                  ELSE configs'[id].initial_prompt[1])
        /\ ExportedPrompt(id)' # ExportedPrompt(id) =>
              /\ last'.op = "update_config"
              /\ id = gen.config
              /\ "initial_prompt" \in DOMAIN last'.kwargs
        /\ (last'.op = "update_config" /\ id = gen.config
               /\ "initial_prompt" \in DOMAIN last'.kwargs) =>
              ExportedPrompt(id)' = OrEmpty(last'.kwargs.initial_prompt)

C10_Prompt == [][C10_PromptStep]_vars

\* C10 witness: update_config has assigned None to the initial_prompt of a
\* configuration built without a prompt in the language 'sk', whose export
\* now gives the empty string.
C10_Witness ==
    /\ last.op = "update_config"
    /\ "initial_prompt" \in DOMAIN last.kwargs
    /\ last.kwargs.initial_prompt = None
    /\ PromptAtConstruction(CtorArgs[gen.config]) = SK_PROMPT
    /\ ExportedPrompt(gen.config) = ""

\* The presets config.py builds at import.
PresetIds == {"DEFAULT_CONFIG", "SLOVAK_CONFIG", "TRANSLATE_TO_ENGLISH_CONFIG",
              "ENGLISH_CONFIG"}

\* C11 (as claimed): after any sequence of operations, update_config on an
\* instance built without a config or with a preset included, every field
\* of every preset has the value it had when the preset was built.
C11_PresetsFixed ==
    \A id \in PresetIds : configs[id] = InitialConfigs[id]

\* C12 (as claimed): update_config assigns exactly the given keys that are
\* declared WhisperConfig fields; every other given key is ignored and
\* leaves the held configuration (its fields, its operations, the result of
\* its export) as it was.
C12_UpdateStep ==
    last'.op = "update_config" =>
        LET kw  == last'.kwargs
            cfg == configs[gen.config]
            set == DOMAIN kw \cap FieldNames
        IN  /\ configs'[gen.config] =
                  [a \in DOMAIN cfg |-> IF a \in set THEN kw[a] ELSE cfg[a]]
            /\ ExportCallable(configs'[gen.config]) = ExportCallable(cfg)

C12_OnlySchemaFieldsAssigned == [][C12_UpdateStep]_vars

CountRuns(events) == Cardinality({i \in DOMAIN events : events[i] = "run"})

StorageSteps == {"open", "write"}

\* C14: an engine error ends the call with that error and nothing is done
\* after it: within one transcribe, generate or generate_translated call the
\* load step is invoked at most once and the run step at most once; when
\* load raises, the run step is not invoked, no storage step is taken, the
\* files are as before and the instance is still Unloaded; when run raises,
\* no storage step is taken, the files are as before and the instance is
\* Loaded; in both cases the caller gets no segments and no text.
C14_EngineStep ==
    last'.op \in ({"transcribe"} \cup GenerateOps) =>
        LET ev == last'.events
        IN  /\ CountLoads(ev) <= 1
            /\ CountRuns(ev) <= 1
            /\ last'.outcome = "EngineLoadError" =>
                  /\ ~Loaded
                  /\ ev = <<"load">>
                  /\ files' = files
                  /\ gen'.model = None
                  /\ last'.segments = None /\ last'.result = None
            /\ last'.outcome = "EngineRunError" =>
                  /\ ev # <<>> /\ ev[Len(ev)] = "run"
                  /\ \A i \in DOMAIN ev : ev[i] \notin StorageSteps
                  /\ files' = files
                  /\ gen'.model # None
                  /\ last'.segments = None /\ last'.result = None

C14_EngineFailurePropagates == [][C14_EngineStep]_vars

\* C14 witness: after a call in which the load step raised and a generate
\* that wrote its text, a generate ended with the run step's error; the
\* earlier text is still in the file.
C14_Witness ==
    /\ last.op = "generate"
    /\ last.outcome = "EngineRunError"
    /\ loadCalls = 2
    /\ Loaded
    /\ files[last.output_path] # None

CallsThroughTranscribe == {"transcribe"} \cup GenerateOps

\* The arguments of the last call that name engine parameters: its
\* overrides, its language when one is applied, the task when translate is
\* set.
OwnKeys(call) ==
    DOMAIN call.kwargs
      \cup (IF call.op \in GenerateOps /\ Truthy(call.language) THEN {"language"} ELSE {})
      \cup (IF call.op \in GenerateOps /\ call.translate THEN {"task"} ELSE {})

\* C16: transcribe, generate and generate_translated, ending well or in an
\* error, leave every configuration object as it was; the held configuration
\* changes only in update_config; so the mapping the engine receives holds,
\* for every key the call's own arguments do not name, the value the held
\* configuration exports, whatever earlier calls were given.
C16_FrameStep ==
    /\ last'.op \in CallsThroughTranscribe => configs' = configs
    /\ configs' # configs =>
          /\ last'.op = "update_config"
          /\ \A id \in ConfigIds \ {gen.config} : configs'[id] = configs[id]
    /\ (last'.op \in CallsThroughTranscribe /\ last'.params # None) =>
          \A k \in ExportKeys \ OwnKeys(last') :
              last'.params[1][k] = ExportedValue(configs[gen.config], k)

C16_ConfigFrame == [][C16_FrameStep]_vars

\* C16 witness: with no update_config made, and after a generate that wrote
\* its text, transcribe without overrides ran the engine with exactly the
\* export of the configuration as it was constructed.
C16_Witness ==
    /\ last.op = "transcribe"
    /\ last.kwargs = EmptyDict
    /\ last.params # None
    /\ nUpdates = 0
    /\ files[OutputPath] # None
    /\ last.params[1] = to_whisper_params(InitialConfigs[gen.config])

\* C17: the size handed to the engine's load step is the model_size the
\* instance was constructed with, which no call changes; the handle held is
\* the one loaded for that size; the mapping handed to the run step has no
\* 'model_size' key unless the caller's overrides supply one; and
\* update_config (model_size included, Unloaded or Loaded) leaves the
\* instance's model_size, its handle and the count of loads as they were.
C17_SizeStep ==
    /\ gen.model_size \in ModelSizes
    /\ gen'.model_size = gen.model_size
    /\ CountLoads(last'.events) > 0 => last'.size = Some(gen.model_size)
    /\ gen'.model # None => gen'.model = Handle(gen.model_size)
    /\ last'.params # None =>
          ("model_size" \in DOMAIN last'.params[1]) = ("model_size" \in DOMAIN last'.kwargs)
    /\ last'.op = "update_config" =>
          /\ gen' = gen
          /\ loadCalls' = loadCalls

C17_ConstructorModelSize == [][C17_SizeStep]_vars

\* C17 witness: update_config(model_size = ...) was made on the Unloaded
\* instance, the held configuration now names another size than the
\* constructor was given, and the load step that followed was handed the
\* constructor's size.
C17_Witness ==
    /\ last.op \in ThroughLoad
    /\ CountLoads(last.events) = 1
    /\ loadCalls = 1
    /\ nUpdates = 1
    /\ configs[gen.config].model_size = "base"
    /\ configs[gen.config].model_size # gen.model_size
    /\ last.size = Some(gen.model_size)
    /\ gen.model = Handle(gen.model_size)

====
